---- MODULE Spec2Model ----
(***************************************************************************)
(* PDF Auto-Bookmarker: the page processing run of app.py, the response    *)
(* normalisation of utils/vision_handler.py (extract_toc_from_image), the  *)
(* bookmark writer of utils/pdf_handler.py (write_toc) and the saved       *)
(* configuration of utils/config_handler.py (save_config, load_config).    *)
(***************************************************************************)
EXTENDS Integers, Sequences, FiniteSets, TLC

VARIABLES
    pc,             \* position of the run in app.py
    page_count,     \* doc.page_count (total_pages)
    start_page,     \* first page of the range (1-based)
    end_page,       \* last page of the range (1-based)
    page_offset,    \* the "Page Offset" input
    physical_page,  \* loop variable of the page loop
    all_entries,    \* the accumulated batch
    content,        \* what the model call of the current page produced
    entries,        \* what extract_toc_from_image returned for the current page
    in_flight,      \* model calls issued and not yet returned
    doc_toc,        \* the document's bookmark structure
    toc0,           \* the bookmark structure the document was loaded with
    fitz_toc,       \* the argument of the last set_toc call
    set_toc_calls,  \* number of set_toc calls of the run
    log,            \* one record per finished page iteration, in order
    requests,       \* the pages a model request was issued for, in order
    cfg_pc,         \* the last configuration operation and how it ended
    saved,          \* the arguments of the last call of save_config
    config_file,    \* pdf_marker_config.json
    loaded          \* what load_config returned since the last save_config

vars == <<pc, page_count, start_page, end_page, page_offset, physical_page,
          all_entries, content, entries, in_flight, doc_toc, toc0, fitz_toc,
          set_toc_calls, log, requests, cfg_pc, saved, config_file, loaded>>

\* the configuration, which a run does not touch
cfg == <<cfg_pc, saved, config_file, loaded>>

-----------------------------------------------------------------------------
(* Bounds of the model.                                                    *)

MaxPageCount == 2
MaxEntries == 2
MaxMembers == 2
MaxOffset == 2
MaxPage == 4

-----------------------------------------------------------------------------
(* JSON values of an entry: a member is absent, null (any non-number) or   *)
(* an integer; a title is absent or a string.                              *)

Absent == [t |-> "absent", v |-> 0]
Null == [t |-> "null", v |-> 0]
Num(n) == [t |-> "int", v |-> n]
NoTitle == [t |-> "absent", s |-> ""]
Str(s) == [t |-> "str", s |-> s]

Entry(level, title, page) ==
    [dict |-> TRUE, level |-> level, title |-> title, page |-> page]

\* a list element that is not a JSON object (a number, a string, ...)
NotADict == [dict |-> FALSE, level |-> Absent, title |-> NoTitle, page |-> Absent]

Lists(S, n) == UNION {[1..k -> S] : k \in 0..n}

-----------------------------------------------------------------------------
(* utils/pdf_handler.py: write_toc                                         *)

\* variant: a missing page defaults to 0
GetPageDefaultsZero(entry) == IF entry.page.t = "absent" THEN 0 ELSE entry.page.v

\* entry.get('page', 1)
GetPage(entry) == IF entry.page.t = "absent" THEN 1 ELSE entry.page.v

\* entry.get('level', 1)
GetLevel(entry) == IF entry.level.t = "absent" THEN Num(1) ELSE entry.level

\* entry.get('title', '')
GetTitle(entry) == IF entry.title.t = "absent" THEN Str("") ELSE entry.title

\* variant: the upper clamp is missing
AdjustPageNoUpperClamp(page, offset, count) ==
    LET sum == page + offset
    IN  IF sum < 1 THEN 1 ELSE sum

\* variant: the page is clamped first and the offset added afterwards
AdjustPageClampsFirst(page, offset, count) ==
    LET low == IF page < 1 THEN 1 ELSE page
        clamped == IF low > count THEN count ELSE low
    IN  clamped + offset

\* variant: the upper clamp treats pages as zero-based
AdjustPageZeroBased(page, offset, count) ==
    LET sum == page + offset
        low == IF sum < 1 THEN 1 ELSE sum
    IN  IF low >= count THEN count - 1 ELSE low

\* page = entry.get('page', 1) + page_offset, then the two clamps
AdjustPage(page, offset, count) ==
    LET sum == page + offset
        low == IF sum < 1 THEN 1 ELSE sum
    IN  IF low > count THEN count ELSE low

\* one iteration of the loop: the item appended to fitz_toc
FitzItem(entry, offset, count) ==
    [level |-> GetLevel(entry),
     title |-> GetTitle(entry),
     page  |-> AdjustPage(GetPage(entry), offset, count)]

\* entry.get on a non-dict, or None + int, raises
EntryRaises(entry) == ~entry.dict \/ entry.page.t = "null"

\* variant: an entry equal to the one before it is skipped
RECURSIVE FitzTocDedup(_, _, _)
FitzTocDedup(toc, offset, count) ==
    IF toc = <<>> THEN <<>>
    ELSE IF Len(toc) > 1 /\ toc[1] = toc[2]
         THEN FitzTocDedup(Tail(toc), offset, count)
         ELSE <<FitzItem(Head(toc), offset, count)>>
              \o FitzTocDedup(Tail(toc), offset, count)

\* the loop over toc, building fitz_toc in input order
RECURSIVE FitzToc(_, _, _)
FitzToc(toc, offset, count) ==
    IF toc = <<>> THEN <<>>
    ELSE <<FitzItem(Head(toc), offset, count)>> \o FitzToc(Tail(toc), offset, count)

\* the loop raises at the first entry it cannot convert, before set_toc
WriteRaises(toc) == \E i \in 1..Len(toc) : EntryRaises(toc[i])

-----------------------------------------------------------------------------
(* utils/vision_handler.py: extract_toc_from_image                         *)

RecognizedKeys == <<"toc", "table_of_contents", "entries", "sections">>
OtherKeys == {"data", "items"}
Keys == {RecognizedKeys[i] : i \in 1..Len(RecognizedKeys)} \cup OtherKeys

Member(key, is_list, list) == [key |-> key, is_list |-> is_list, list |-> list]

\* what the model call produced: an exception ("error"), or a message
\* content that is empty, not JSON, or a JSON null, scalar, array or object
Response(kind, list, members) == [kind |-> kind, list |-> list, members |-> members]
NoContent == Response("none", <<>>, <<>>)
CallError == Response("error", <<>>, <<>>)
EmptyBody == Response("empty", <<>>, <<>>)
InvalidJson == Response("invalid", <<>>, <<>>)
NullJson == Response("null", <<>>, <<>>)
ScalarJson == Response("scalar", <<>>, <<>>)
ListJson(list) == Response("list", list, <<>>)
ObjectJson(members) == Response("object", <<>>, members)

\* the return value: None, or a list
NoneResult == [some |-> FALSE, list |-> <<>>]
Some(list) == [some |-> TRUE, list |-> list]

\* for key in ['toc', ...]: if key in data and isinstance(data[key], list)
RECURSIVE KnownKeyList(_, _)
KnownKeyList(members, k) ==
    IF k > Len(RecognizedKeys) THEN NoneResult
    ELSE IF \E i \in 1..Len(members) :
                members[i].key = RecognizedKeys[k] /\ members[i].is_list
         THEN Some((CHOOSE m \in {members[i] : i \in 1..Len(members)} :
                        m.key = RecognizedKeys[k]).list)
         ELSE KnownKeyList(members, k + 1)

\* variant: the last list-valued member wins
RECURSIVE LastListValue(_)
LastListValue(members) ==
    IF members = <<>> THEN NoneResult
    ELSE IF members[Len(members)].is_list THEN Some(members[Len(members)].list)
         ELSE LastListValue(SubSeq(members, 1, Len(members) - 1))

\* for value in data.values(): if isinstance(value, list): return value
RECURSIVE FirstListValue(_)
FirstListValue(members) ==
    IF members = <<>> THEN NoneResult
    ELSE IF Head(members).is_list THEN Some(Head(members).list)
         ELSE FirstListValue(Tail(members))

\* variant: no fallback to the list-valued members under other keys
ParseDataNoFallback(response) ==
    IF response.kind = "list" THEN Some(response.list)
    ELSE IF response.kind = "object"
         THEN KnownKeyList(response.members, 1)
         ELSE NoneResult

\* variant: an object holding no list is taken for a single entry
ParseDataWrapsObject(response) ==
    IF response.kind = "list" THEN Some(response.list)
    ELSE IF response.kind = "object"
         THEN LET known == KnownKeyList(response.members, 1)
                  first == FirstListValue(response.members)
              IN  IF known.some THEN known
                  ELSE IF first.some THEN first
                  ELSE Some(<<Entry(Absent, NoTitle, Absent)>>)
         ELSE NoneResult

\* the isinstance dispatch on the parsed data
ParseData(response) ==
    IF response.kind = "list" THEN Some(response.list)
    ELSE IF response.kind = "object"
         THEN LET known == KnownKeyList(response.members, 1)
              IN  IF known.some THEN known ELSE FirstListValue(response.members)
         ELSE NoneResult

\* the whole function: every exception and every empty body ends as None
ExtractTocFromImage(response) ==
    IF response.kind \in {"error", "empty", "invalid"} THEN NoneResult
    ELSE ParseData(response)

-----------------------------------------------------------------------------
(* The inputs of the model.                                                *)

Ch1 == Entry(Num(1), Str("Ch1"), Num(2))
Ch2 == Entry(Num(2), Str("Ch2"), Num(1))
BadPage == Entry(Num(1), Str("Bad"), Null)

\* entries the model answers with in a run over several pages
RunEntries == {Ch1, BadPage}

\* entries the model answers with in a run over one page
PageEntries ==
    {Entry(Num(1), Str("Ch1"), Num(p)) : p \in -1..MaxPage}
    \cup {Ch2, BadPage, NotADict,
          Entry(Absent, Str("Ch1"), Num(2)),
          Entry(Num(2), NoTitle, Num(1)),
          Entry(Num(1), Str("Ch2"), Absent)}

\* member values of an object: a scalar or a short list
MemberValues ==
    {<<FALSE, <<>> >>} \cup {<<TRUE, l>> : l \in {<<>>, <<Ch1>>, <<Ch2>>}}

Members == {Member(k, v[1], v[2]) : k \in Keys, v \in MemberValues}

\* objects: up to MaxMembers members, no key twice, in member order
Objects ==
    UNION {{ms \in [1..n -> Members] :
                \A i, j \in 1..n : i # j => ms[i].key # ms[j].key}
           : n \in 0..MaxMembers}

Bodies == {EmptyBody, InvalidJson, NullJson, ScalarJson}

RunResponses ==
    Bodies
    \cup {ListJson(l) : l \in Lists(RunEntries, MaxEntries)}
    \cup {ObjectJson(<<Member("toc", TRUE, l)>>) : l \in Lists(RunEntries, MaxEntries)}
    \cup {ObjectJson(<<Member("data", FALSE, <<>>)>>)}

PageResponses ==
    Bodies
    \cup {ListJson(l) : l \in Lists(PageEntries, MaxEntries)}
    \cup {ObjectJson(ms) : ms \in Objects}

\* bookmark structures a document may already hold
PriorTocs == {<<>>, <<[level |-> Num(1), title |-> Str("Old"), page |-> 1]>>}

-----------------------------------------------------------------------------
(* utils/config_handler.py: a string is a sequence of code points, the   *)
(* file a record of the bytes of its three string members.                *)

\* the longest API key
MaxKeyLen == 2

\* str.encode('utf-8') raises UnicodeEncodeError on a lone surrogate
IsSurrogate(c) == c >= 55296 /\ c <= 57343
Encodable(text) == \A i \in 1..Len(text) : ~IsSurrogate(text[i])

\* the UTF-8 bytes of one code point of the basic plane
Utf8Char(c) ==
    IF c < 128 THEN <<c>>
    ELSE IF c < 2048 THEN <<192 + (c \div 64), 128 + (c % 64)>>
    ELSE <<224 + (c \div 4096), 128 + ((c \div 64) % 64), 128 + (c % 64)>>

\* str.encode('utf-8') of a text that is Encodable
RECURSIVE Utf8Encode(_)
Utf8Encode(text) ==
    IF text = <<>> THEN <<>>
    ELSE Utf8Char(Head(text)) \o Utf8Encode(Tail(text))

\* a conversion that raised
Failed == [ok |-> FALSE, out |-> <<>>]

\* bytes.decode('utf-8'): strict, sequences of one to three bytes
RECURSIVE Utf8Decode(_)
Utf8Decode(bytes) ==
    IF bytes = <<>> THEN [ok |-> TRUE, out |-> <<>>]
    ELSE LET b == bytes[1]
             n == IF b < 128 THEN 1
                  ELSE IF b >= 194 /\ b < 224 THEN 2
                  ELSE IF b >= 224 /\ b < 240 THEN 3
                  ELSE 0
         IN IF n = 0 \/ Len(bytes) < n
               \/ \E k \in 2..n : bytes[k] < 128 \/ bytes[k] >= 192
            THEN Failed
            ELSE LET c == IF n = 1 THEN b
                          ELSE IF n = 2 THEN (b - 192) * 64 + (bytes[2] - 128)
                          ELSE (b - 224) * 4096 + (bytes[2] - 128) * 64
                               + (bytes[3] - 128)
                     rest == Utf8Decode(SubSeq(bytes, n + 1, Len(bytes)))
                 IN IF (n = 3 /\ (c < 2048 \/ IsSurrogate(c))) \/ ~rest.ok
                    THEN Failed
                    ELSE [ok |-> TRUE, out |-> <<c>> \o rest.out]

\* the base64 alphabet: A-Z, a-z, 0-9, +, /
B64Char(i) ==
    IF i < 26 THEN 65 + i
    ELSE IF i < 52 THEN 97 + (i - 26)
    ELSE IF i < 62 THEN 48 + (i - 52)
    ELSE IF i = 62 THEN 43
    ELSE 47

\* the value of a base64 character, -1 for a byte outside the alphabet
B64Index(c) ==
    IF c >= 65 /\ c <= 90 THEN c - 65
    ELSE IF c >= 97 /\ c <= 122 THEN c - 97 + 26
    ELSE IF c >= 48 /\ c <= 57 THEN c - 48 + 52
    ELSE IF c = 43 THEN 62
    ELSE IF c = 47 THEN 63
    ELSE -1

\* the padding character =
B64Pad == 61

\* base64.b64encode: three bytes to four characters, the rest padded
RECURSIVE B64Encode(_)
B64Encode(bytes) ==
    IF bytes = <<>> THEN <<>>
    ELSE IF Len(bytes) = 1
    THEN <<B64Char(bytes[1] \div 4), B64Char((bytes[1] % 4) * 16),
           B64Pad, B64Pad>>
    ELSE IF Len(bytes) = 2
    THEN <<B64Char(bytes[1] \div 4),
           B64Char((bytes[1] % 4) * 16 + (bytes[2] \div 16)),
           B64Char((bytes[2] % 16) * 4), B64Pad>>
    ELSE <<B64Char(bytes[1] \div 4),
           B64Char((bytes[1] % 4) * 16 + (bytes[2] \div 16)),
           B64Char((bytes[2] % 16) * 4 + (bytes[3] \div 64)),
           B64Char(bytes[3] % 64)>>
         \o B64Encode(SubSeq(bytes, 4, Len(bytes)))

\* the values of the characters of the alphabet, four characters to three
\* bytes, a rest of two or three characters to one or two bytes
RECURSIVE B64Bytes(_)
B64Bytes(data) ==
    IF Len(data) < 2 THEN <<>>
    ELSE LET b1 == B64Index(data[1]) * 4 + (B64Index(data[2]) \div 16)
         IN IF Len(data) = 2 THEN <<b1>>
            ELSE LET b2 == (B64Index(data[2]) % 16) * 16
                           + (B64Index(data[3]) \div 4)
                 IN IF Len(data) = 3 THEN <<b1, b2>>
                    ELSE <<b1, b2,
                           (B64Index(data[3]) % 4) * 64 + B64Index(data[4])>>
                         \o B64Bytes(SubSeq(data, 5, Len(data)))

\* the characters in front of the first padding character
RECURSIVE B64BeforePad(_)
B64BeforePad(chars) ==
    IF chars = <<>> \/ Head(chars) = B64Pad THEN <<>>
    ELSE <<Head(chars)>> \o B64BeforePad(Tail(chars))

\* base64.b64decode without validate: bytes outside the alphabet are
\* dropped, and a rest that the padding does not complete raises
B64Decode(chars) ==
    LET data == SelectSeq(B64BeforePad(chars), LAMBDA c : B64Index(c) >= 0)
        pads == Len(SelectSeq(chars, LAMBDA c : c = B64Pad))
        rest == Len(data) % 4
    IN IF rest = 1 \/ (rest # 0 /\ pads < 4 - rest)
       THEN Failed
       ELSE [ok |-> TRUE, out |-> B64Bytes(data)]

\* json.dump of a string with ensure_ascii=False: the quote and the
\* backslash are escaped, the other characters are written as they are
RECURSIVE JsonEscape(_)
JsonEscape(text) ==
    IF text = <<>> THEN <<>>
    ELSE (IF Head(text) \in {34, 92} THEN <<92, Head(text)>> ELSE <<Head(text)>>)
         \o JsonEscape(Tail(text))

\* json.load of the inside of a string literal
RECURSIVE JsonUnescape(_)
JsonUnescape(text) ==
    IF text = <<>> THEN [ok |-> TRUE, out |-> <<>>]
    ELSE IF Head(text) = 34 THEN Failed
    ELSE IF Head(text) = 92
    THEN IF Len(text) < 2 \/ text[2] \notin {34, 92} THEN Failed
         ELSE LET rest == JsonUnescape(SubSeq(text, 3, Len(text)))
              IN IF rest.ok THEN [ok |-> TRUE, out |-> <<text[2]>> \o rest.out]
                 ELSE Failed
    ELSE LET rest == JsonUnescape(Tail(text))
         IN IF rest.ok THEN [ok |-> TRUE, out |-> <<Head(text)>> \o rest.out]
            ELSE Failed

\* _obfuscate_api_key of a key that is Encodable
ObfuscateApiKey(api_key) ==
    IF api_key = <<>> THEN <<>>
    ELSE Utf8Decode(B64Encode(Utf8Encode(api_key))).out

\* _obfuscate_api_key raises: api_key.encode is not inside a try
ObfuscateRaises(api_key) == api_key # <<>> /\ ~Encodable(api_key)

\* _deobfuscate_api_key: the empty string for an empty key and for any
\* exception of the decoding
DeobfuscateApiKey(obfuscated_key) ==
    IF obfuscated_key = <<>> \/ ~Encodable(obfuscated_key) THEN <<>>
    ELSE LET decoded == B64Decode(Utf8Encode(obfuscated_key))
         IN IF ~decoded.ok THEN <<>>
            ELSE IF Utf8Decode(decoded.out).ok THEN Utf8Decode(decoded.out).out
            ELSE <<>>

\* a configuration: the three strings the sidebar holds; present is FALSE
\* before any save_config and for load_config returning None
Config(base_url, api_key, model) ==
    [present |-> TRUE, base_url |-> base_url, api_key |-> api_key, model |-> model]
NoConfig == [present |-> FALSE, base_url |-> <<>>, api_key |-> <<>>, model |-> <<>>]

\* pdf_marker_config.json: absent, a JSON object (the bytes of the inside
\* of its three string literals), or text that is not JSON
JsonFile(base_url, api_key, model) ==
    [state |-> "json", base_url |-> base_url, api_key |-> api_key, model |-> model]
NoFile == [state |-> "none", base_url |-> <<>>, api_key |-> <<>>, model |-> <<>>]
BrokenFile == [state |-> "broken", base_url |-> <<>>, api_key |-> <<>>, model |-> <<>>]

\* a string member as json.dump and the utf-8 file write it
Dump(text) == Utf8Encode(JsonEscape(text))

\* a string member as the utf-8 file and json.load read it
Parse(bytes) ==
    IF Utf8Decode(bytes).ok THEN JsonUnescape(Utf8Decode(bytes).out) ELSE Failed

\* the file save_config leaves: the write raises at a member that cannot
\* be encoded, after open(.., 'w') has truncated the file
SavedFile(base_url, api_key, model) ==
    IF Encodable(base_url) /\ Encodable(model)
    THEN JsonFile(Dump(base_url), Dump(ObfuscateApiKey(api_key)), Dump(model))
    ELSE BrokenFile

\* what load_config returns for a file
LoadedConfig(file) ==
    IF file.state # "json" THEN NoConfig
    ELSE IF ~Parse(file.base_url).ok \/ ~Parse(file.api_key).ok
            \/ ~Parse(file.model).ok
    THEN NoConfig
    ELSE Config(Parse(file.base_url).out,
                DeobfuscateApiKey(Parse(file.api_key).out),
                Parse(file.model).out)

\* the characters of the keys: A, a character of three bytes, and a lone
\* surrogate
KeyChars == {65, 20013, 55296}

ApiKeys == UNION {[1..n -> KeyChars] : n \in 0..MaxKeyLen}

\* h"\ and a lone surrogate
BaseUrls == {<<104, 34, 92>>, <<55296>>}

\* a character of two bytes, and m
Models == {<<233>>, <<109>>}

-----------------------------------------------------------------------------
(* app.py: the run.                                                        *)

Start(first, last, count, offset, prior) ==
    /\ pc = "render"
    /\ page_count = count
    /\ start_page = first
    /\ end_page = last
    /\ page_offset = offset
    /\ physical_page = first
    /\ all_entries = <<>>
    /\ content = NoContent
    /\ entries = NoneResult
    /\ in_flight = 0
    /\ doc_toc = prior
    /\ toc0 = prior
    /\ fitz_toc = <<>>
    /\ set_toc_calls = 0
    /\ log = <<>>
    /\ requests = <<>>
    /\ cfg_pc = "idle"
    /\ saved = NoConfig
    /\ config_file = NoFile
    /\ loaded = NoConfig

\* a loaded document, a page range with start_page <= end_page, an offset
Init ==
    \E count \in 1..MaxPageCount, offset \in -MaxOffset..MaxOffset, prior \in PriorTocs :
        \E first \in 1..count, last \in 1..count :
            /\ first <= last
            /\ Start(first, last, count, offset, prior)

\* the same, the range being the first page alone
InitPage ==
    \E count \in 1..MaxPageCount, offset \in -MaxOffset..MaxOffset, prior \in PriorTocs :
        Start(1, 1, count, offset, prior)

LogEntry(rendered, failed, returned) ==
    [page |-> physical_page, rendered |-> rendered, failed |-> failed,
     returned |-> returned]

\* the end of a loop iteration: the next page, or the summary after the last
NextIteration ==
    IF physical_page < end_page
    THEN /\ physical_page' = physical_page + 1
         /\ pc' = "render"
    ELSE /\ physical_page' = physical_page
         /\ pc' = "summary"

\* render_page_to_image returns the image
RenderOk ==
    /\ pc = "render"
    /\ pc' = "encode"
    /\ UNCHANGED <<page_count, start_page, end_page, page_offset, physical_page,
                   all_entries, content, entries, in_flight, doc_toc, toc0,
                   fitz_toc, set_toc_calls, log,
                   requests, cfg>>

\* variant: the exception of the render is not caught in the loop and
\* reaches the handler around the whole run
RenderFailsAborts ==
    /\ pc = "render"
    /\ pc' = "failed"
    /\ log' = Append(log, LogEntry(FALSE, FALSE, NoneResult))
    /\ UNCHANGED <<page_count, start_page, end_page, page_offset, physical_page,
                   all_entries, content, entries, in_flight, doc_toc, toc0,
                   fitz_toc, set_toc_calls, requests, cfg>>

\* render_page_to_image raises: st.error and continue
RenderFails ==
    /\ pc = "render"
    /\ NextIteration
    /\ log' = Append(log, LogEntry(FALSE, FALSE, NoneResult))
    /\ UNCHANGED <<page_count, start_page, end_page, page_offset, all_entries,
                   content, entries, in_flight, doc_toc, toc0, fitz_toc,
                   set_toc_calls,
                   requests, cfg>>

\* encode_image_to_base64
Encode ==
    /\ pc = "encode"
    /\ pc' = "request"
    /\ UNCHANGED <<page_count, start_page, end_page, page_offset, physical_page,
                   all_entries, content, entries, in_flight, doc_toc, toc0,
                   fitz_toc, set_toc_calls, log,
                   requests, cfg>>

\* variant: the request is sent and the loop goes on to the next page
\* without waiting for the answer
RequestPipelined ==
    /\ pc = "request"
    /\ in_flight' = in_flight + 1
    /\ requests' = Append(requests, physical_page)
    /\ log' = Append(log, LogEntry(TRUE, FALSE, NoneResult))
    /\ NextIteration
    /\ UNCHANGED <<page_count, start_page, end_page, page_offset, all_entries,
                   content, entries, doc_toc, toc0, fitz_toc, set_toc_calls,
                   cfg>>

\* extract_toc_from_image issues client.chat.completions.create
Request ==
    /\ pc = "request"
    /\ pc' = "await"
    /\ in_flight' = in_flight + 1
    /\ requests' = Append(requests, physical_page)
    /\ UNCHANGED <<page_count, start_page, end_page, page_offset, physical_page,
                   all_entries, content, entries, doc_toc, toc0, fitz_toc,
                   set_toc_calls, log, cfg>>

\* the call ends and extract_toc_from_image returns to the loop
Return(response) ==
    /\ pc' = "extend"
    /\ in_flight' = in_flight - 1
    /\ content' = response
    /\ entries' = ExtractTocFromImage(response)
    /\ UNCHANGED <<page_count, start_page, end_page, page_offset, physical_page,
                   all_entries, doc_toc, toc0, fitz_toc, set_toc_calls, log,
                   requests, cfg>>

\* variant: the exception of the call is not caught in the extractor and
\* reaches the handler around the whole run
CallFailsPropagates ==
    /\ pc = "await"
    /\ pc' = "failed"
    /\ in_flight' = in_flight - 1
    /\ content' = CallError
    /\ UNCHANGED <<page_count, start_page, end_page, page_offset, physical_page,
                   all_entries, entries, doc_toc, toc0, fitz_toc, set_toc_calls,
                   log,
                   requests, cfg>>

\* variant: a call that raises is issued once more for the same page
CallFailsRetries ==
    /\ pc = "await"
    /\ IF Cardinality({i \in 1..Len(requests) : requests[i] = physical_page}) = 1
       THEN /\ pc' = "request"
            /\ in_flight' = in_flight - 1
            /\ UNCHANGED <<page_count, start_page, end_page, page_offset,
                           physical_page, all_entries, content, entries,
                           doc_toc, toc0, fitz_toc, set_toc_calls, log,
                           requests, cfg>>
       ELSE Return(CallError)

\* the call raises (network, auth, rate limit, timeout)
CallFails ==
    /\ pc = "await"
    /\ Return(CallError)

\* the call returns a message
CallReturns ==
    /\ pc = "await"
    /\ \E response \in RunResponses : Return(response)

\* the same, the message being any of the responses of a one-page run
CallReturnsPage ==
    /\ pc = "await"
    /\ \E response \in PageResponses : Return(response)

\* variant: the entries of a page are put in front of the batch
ExtendPrepends ==
    /\ pc = "extend"
    /\ all_entries' = IF entries.some /\ entries.list # <<>>
                      THEN entries.list \o all_entries
                      ELSE all_entries
    /\ log' = Append(log, LogEntry(TRUE, content.kind = "error", entries))
    /\ content' = NoContent
    /\ NextIteration
    /\ UNCHANGED <<page_count, start_page, end_page, page_offset, entries,
                   in_flight, doc_toc, toc0, fitz_toc, set_toc_calls,
                   requests, cfg>>

\* variant: the bookmarks are committed after every page that adds entries
ExtendCommits ==
    /\ pc = "extend"
    /\ all_entries' = IF entries.some /\ entries.list # <<>>
                      THEN all_entries \o entries.list
                      ELSE all_entries
    /\ log' = Append(log, LogEntry(TRUE, content.kind = "error", entries))
    /\ content' = NoContent
    /\ NextIteration
    /\ IF entries.some /\ entries.list # <<>> /\ ~WriteRaises(all_entries')
       THEN /\ fitz_toc' = FitzToc(all_entries', page_offset, page_count)
            /\ doc_toc' = fitz_toc'
            /\ set_toc_calls' = set_toc_calls + 1
       ELSE UNCHANGED <<doc_toc, fitz_toc, set_toc_calls>>
    /\ UNCHANGED <<page_count, start_page, end_page, page_offset, entries,
                   in_flight, toc0,
                   requests, cfg>>

\* if entries: all_entries.extend(entries); then the next iteration
Extend ==
    /\ pc = "extend"
    /\ all_entries' = IF entries.some /\ entries.list # <<>>
                      THEN all_entries \o entries.list
                      ELSE all_entries
    /\ log' = Append(log, LogEntry(TRUE, content.kind = "error", entries))
    /\ content' = NoContent
    /\ NextIteration
    /\ UNCHANGED <<page_count, start_page, end_page, page_offset, entries,
                   in_flight, doc_toc, toc0, fitz_toc, set_toc_calls,
                   requests, cfg>>

\* variant: write_toc stores the adjusted page back into each entry
WriteTocInPlace ==
    /\ pc = "summary"
    /\ all_entries # <<>>
    /\ IF WriteRaises(all_entries)
       THEN /\ pc' = "failed"
            /\ UNCHANGED <<all_entries, doc_toc, fitz_toc, set_toc_calls>>
       ELSE /\ pc' = "written"
            /\ fitz_toc' = FitzToc(all_entries, page_offset, page_count)
            /\ doc_toc' = fitz_toc'
            /\ set_toc_calls' = set_toc_calls + 1
            /\ all_entries' = [i \in 1..Len(all_entries) |->
                                  [all_entries[i] EXCEPT
                                      !.page = Num(fitz_toc'[i].page)]]
    /\ UNCHANGED <<page_count, start_page, end_page, page_offset, physical_page,
                   content, entries, in_flight, toc0, log, requests, cfg>>

\* if all_entries: write_toc(doc, all_entries, page_offset); an exception
\* of write_toc is caught by the handler around the whole run
WriteToc ==
    /\ pc = "summary"
    /\ all_entries # <<>>
    /\ IF WriteRaises(all_entries)
       THEN /\ pc' = "failed"
            /\ UNCHANGED <<doc_toc, fitz_toc, set_toc_calls>>
       ELSE /\ pc' = "written"
            /\ fitz_toc' = FitzToc(all_entries, page_offset, page_count)
            /\ doc_toc' = fitz_toc'
            /\ set_toc_calls' = set_toc_calls + 1
    /\ UNCHANGED <<page_count, start_page, end_page, page_offset, physical_page,
                   all_entries, content, entries, in_flight, toc0, log,
                   requests, cfg>>

\* variant: the empty batch is written, which clears the bookmarks
NothingExtractedClearsToc ==
    /\ pc = "summary"
    /\ all_entries = <<>>
    /\ pc' = "nothing"
    /\ fitz_toc' = <<>>
    /\ doc_toc' = <<>>
    /\ set_toc_calls' = set_toc_calls + 1
    /\ UNCHANGED <<page_count, start_page, end_page, page_offset, physical_page,
                   all_entries, content, entries, in_flight, toc0, log,
                   requests, cfg>>

\* else: "No bookmarks were extracted"
NothingExtracted ==
    /\ pc = "summary"
    /\ all_entries = <<>>
    /\ pc' = "nothing"
    /\ UNCHANGED <<page_count, start_page, end_page, page_offset, physical_page,
                   all_entries, content, entries, in_flight, doc_toc, toc0,
                   fitz_toc, set_toc_calls, log,
                   requests, cfg>>

Next ==
    \/ RenderOk
    \/ RenderFails
    \/ Encode
    \/ Request
    \/ CallFails
    \/ CallReturns
    \/ Extend
    \/ WriteToc
    \/ NothingExtracted

NextPage ==
    \/ RenderOk
    \/ RenderFails
    \/ Encode
    \/ Request
    \/ CallFails
    \/ CallReturnsPage
    \/ Extend
    \/ WriteToc
    \/ NothingExtracted

\* the variables of a run, which the configuration does not touch
run == <<pc, page_count, start_page, end_page, page_offset, physical_page,
         all_entries, content, entries, in_flight, doc_toc, toc0, fitz_toc,
         set_toc_calls, log, requests>>

\* save_config: the key is obfuscated before the try, the file is written
\* inside it
SaveConfig ==
    /\ UNCHANGED run
    /\ \E base_url \in BaseUrls, api_key \in ApiKeys, model \in Models :
          /\ saved' = Config(base_url, api_key, model)
          /\ loaded' = NoConfig
          /\ IF ObfuscateRaises(api_key)
             THEN /\ cfg_pc' = "save_raised"
                  /\ config_file' = config_file
             ELSE /\ config_file' = SavedFile(base_url, api_key, model)
                  /\ cfg_pc' = IF config_file'.state = "json"
                               THEN "saved" ELSE "save_failed"

\* load_config
LoadConfig ==
    /\ UNCHANGED <<run, saved, config_file>>
    /\ cfg_pc' = "loaded"
    /\ loaded' = LoadedConfig(config_file)

\* the sidebar before a run
InitConfig == Start(1, 1, 1, 0, <<>>)

NextConfig ==
    \/ SaveConfig
    \/ LoadConfig

\* runs over any page range, the model answering with short lists
Spec == Init /\ [][Next]_vars

\* runs over the first page alone, the model answering with any response
SpecPage == InitPage /\ [][NextPage]_vars

\* configurations saved and loaded, in any order
SpecConfig == InitConfig /\ [][NextConfig]_vars

-----------------------------------------------------------------------------
(* Properties of write_toc, checked on runs over one page (SpecPage).      *)

\* the page the writer is specified to emit for an extracted page number
ExpectedPage(page, offset, count) ==
    CASE page + offset < 1 -> 1
      [] page + offset > count -> count
      [] OTHER -> page + offset

HasPage(entry) == entry.dict /\ entry.page.t = "int"

\* C1: every item write_toc passes to set_toc has its page in
\* [1, page_count], whatever the entries, the offset and the page count.
C1_ClampInvariant ==
    \A i \in 1..Len(fitz_toc) :
        fitz_toc[i].page >= 1 /\ fitz_toc[i].page <= page_count

\* a committed list with one page clamped from above and one from below
C1_Witness ==
    /\ pc = "written"
    /\ Len(all_entries) = 2
    /\ HasPage(all_entries[1]) /\ HasPage(all_entries[2])
    /\ all_entries[1].page.v + page_offset > page_count
    /\ all_entries[2].page.v + page_offset < 1

\* C3: the committed list has the length of the input and its i-th item is
\* built from the i-th entry: nothing is reordered, dropped, merged or
\* deduplicated.
C3_OrderPreserved ==
    pc = "written" =>
        /\ Len(fitz_toc) = Len(all_entries)
        /\ \A i \in 1..Len(all_entries) :
              LET e == all_entries[i]
              IN  /\ fitz_toc[i].level = (IF e.level.t = "absent" THEN Num(1) ELSE e.level)
                  /\ fitz_toc[i].title = (IF e.title.t = "absent" THEN Str("") ELSE e.title)
                  /\ fitz_toc[i].page =
                        ExpectedPage(IF e.page.t = "absent" THEN 1 ELSE e.page.v,
                                     page_offset, page_count)

\* two identical entries are committed as two items
C3_Witness ==
    /\ pc = "written"
    /\ Len(all_entries) = 2
    /\ all_entries[1] = all_entries[2]
    /\ Len(fitz_toc) = 2

\* C9: the emitted page is entry.page + page_offset when that lies in
\* [1, page_count], 1 when it is below 1 and page_count when it is above;
\* pages 5 and 12 with offset 14 and 200 pages give 19 and 26, page 500
\* with offset 0 and 50 pages gives 50.
C9_PageMapping ==
    /\ pc = "written" =>
          \A i \in 1..Len(all_entries) :
              HasPage(all_entries[i]) =>
                  LET sum == all_entries[i].page.v + page_offset
                  IN  /\ (sum >= 1 /\ sum <= page_count) => fitz_toc[i].page = sum
                      /\ sum < 1 => fitz_toc[i].page = 1
                      /\ sum > page_count => fitz_toc[i].page = page_count
    /\ FitzToc(<<Entry(Num(1), Str("Ch1"), Num(5)),
                 Entry(Num(1), Str("Ch2"), Num(12))>>, 14, 200)
         = <<[level |-> Num(1), title |-> Str("Ch1"), page |-> 19],
             [level |-> Num(1), title |-> Str("Ch2"), page |-> 26]>>
    /\ FitzToc(<<Entry(Num(1), Str("Ch1"), Num(500))>>, 0, 50)
         = <<[level |-> Num(1), title |-> Str("Ch1"), page |-> 50]>>

\* a committed list with a non-zero offset, one page kept and one clamped
C9_Witness ==
    /\ pc = "written"
    /\ page_offset # 0
    /\ Len(all_entries) = 2
    /\ HasPage(all_entries[1]) /\ HasPage(all_entries[2])
    /\ all_entries[1].page.v + page_offset \in 1..page_count
    /\ all_entries[1].page.v \notin 1..page_count
    /\ all_entries[2].page.v + page_offset > page_count
    /\ fitz_toc[2].page = page_count

InBounds(toc) ==
    \A i \in 1..Len(toc) :
        HasPage(toc[i]) /\ toc[i].page.v >= 1 /\ toc[i].page.v <= page_count

\* C10: with page_offset 0 and every input page in [1, page_count], the
\* emitted page of each entry is the page the entry had.
C10_IdentityOnPages ==
    (pc = "written" /\ page_offset = 0 /\ InBounds(all_entries)) =>
        \A i \in 1..Len(all_entries) : fitz_toc[i].page = all_entries[i].page.v

\* a committed list, offset 0, whose pages include the last page
C10_Witness ==
    /\ pc = "written"
    /\ page_offset = 0
    /\ InBounds(all_entries)
    /\ Len(all_entries) = 2
    /\ all_entries[1].page.v = page_count
    /\ all_entries[2].page.v = 1
    /\ page_count > 1

-----------------------------------------------------------------------------
(* Properties of extract_toc_from_image, checked on runs over one page.    *)

IsRecognized(key) == \E k \in 1..Len(RecognizedKeys) : RecognizedKeys[k] = key

Priority(key) == CHOOSE k \in 1..Len(RecognizedKeys) : RecognizedKeys[k] = key

\* member i is the only list-valued member and sits under an unrecognized key
OnlyListUnderOtherKey(members, i) ==
    /\ ~IsRecognized(members[i].key)
    /\ members[i].is_list
    /\ \A j \in 1..Len(members) : j # i => ~members[j].is_list

\* no recognized key that comes before the key of member i holds a list
FirstRecognizedList(members, i) ==
    /\ IsRecognized(members[i].key)
    /\ members[i].is_list
    /\ \A j \in 1..Len(members) :
          (IsRecognized(members[j].key) /\ members[j].is_list)
              => Priority(members[j].key) >= Priority(members[i].key)

\* C4 as stated: the result is L for the bare array L, for any object
\* holding L under a recognized key, and for an object whose only
\* list-valued member is L under an unrecognized key.
C4_AnyRecognizedKey ==
    pc = "extend" =>
        /\ content.kind = "list" => entries = Some(content.list)
        /\ content.kind = "object" =>
              \A i \in 1..Len(content.members) :
                  /\ (IsRecognized(content.members[i].key) /\ content.members[i].is_list)
                        => entries = Some(content.members[i].list)
                  /\ OnlyListUnderOtherKey(content.members, i)
                        => entries = Some(content.members[i].list)

\* C4, amended: the result is L for the bare array L, for an object holding
\* L under a recognized key when no recognized key earlier in the order
\* toc, table_of_contents, entries, sections holds a list, and for an object
\* whose only list-valued member is L under an unrecognized key.
C4_Normalization ==
    pc = "extend" =>
        /\ content.kind = "list" => entries = Some(content.list)
        /\ content.kind = "object" =>
              \A i \in 1..Len(content.members) :
                  /\ FirstRecognizedList(content.members, i)
                        => entries = Some(content.members[i].list)
                  /\ OnlyListUnderOtherKey(content.members, i)
                        => entries = Some(content.members[i].list)

\* an object whose only list is under an unrecognized key, after a member
\* that is no list, has been normalised to that list
C4_Witness ==
    /\ pc = "extend"
    /\ content.kind = "object"
    /\ Len(content.members) = 2
    /\ ~content.members[1].is_list
    /\ OnlyListUnderOtherKey(content.members, 2)
    /\ content.members[2].list # <<>>
    /\ entries = Some(content.members[2].list)

\* the body is empty, not JSON, or JSON of no recognized shape
NoShape(response) ==
    \/ response.kind \in {"empty", "invalid", "null", "scalar"}
    \/ /\ response.kind = "object"
       /\ \A i \in 1..Len(response.members) : ~response.members[i].is_list

\* C5: for an empty body, a body that is not JSON, or JSON of no recognized
\* shape, extract_toc_from_image returns an empty result without raising,
\* and the page adds nothing to the batch.
C5_EmptyOnNoShape ==
    /\ [](pc = "extend" /\ NoShape(content) => entries = NoneResult)
    /\ [][(pc = "await" /\ NoShape(content')) => pc' = "extend"]_vars
    /\ [][(pc = "extend" /\ NoShape(content))
             => (all_entries' = all_entries /\ pc' \in {"render", "summary"})]_vars

\* an object with two members, neither a list, has been answered with None
C5_Witness ==
    /\ pc = "extend"
    /\ content.kind = "object"
    /\ Len(content.members) = 2
    /\ NoShape(content)
    /\ entries = NoneResult

-----------------------------------------------------------------------------
(* Properties of the run, checked on runs over any page range (Spec).      *)

\* the loop is over: summary, committed, nothing extracted, or failed
AfterLoop == {"summary", "written", "nothing", "failed"}

Finished == {"written", "nothing", "failed"}

\* the lists the extractor returned, page after page, put end to end
RECURSIVE Returned(_)
Returned(records) ==
    IF records = <<>> THEN <<>>
    ELSE Head(records).returned.list \o Returned(Tail(records))

\* every page of the range has had its iteration, in increasing order
AllPagesDone ==
    /\ Len(log) = end_page - start_page + 1
    /\ \A i \in 1..Len(log) : log[i].page = start_page + i - 1

\* C2: the batch is the concatenation, in increasing page order, of the
\* lists the extractor returned for the pages (nothing for a page that
\* failed or returned no entries); after the loop every page is in it.
C2_BatchInPageOrder ==
    /\ all_entries = Returned(log)
    /\ \A i \in 1..Len(log) : log[i].page = start_page + i - 1
    /\ pc \in AfterLoop => AllPagesDone

\* two pages with different, non-empty lists: the two entries of the
\* first page come before the entry of the second
C2_Witness ==
    /\ pc = "summary"
    /\ Len(log) = 2
    /\ Len(log[1].returned.list) = 2
    /\ Len(log[2].returned.list) = 1
    /\ log[1].returned.list[2] # log[2].returned.list[1]
    /\ Len(all_entries) = 3

\* C6: a model call that raises ends as None for its page: the batch is
\* left as it was, the loop goes on with the next page, and after the
\* loop every page of the range has had its iteration.
C6_TransportFailureIsPageScoped ==
    /\ [][(pc = "await" /\ content'.kind = "error")
             => (pc' = "extend" /\ entries' = NoneResult
                 /\ all_entries' = all_entries)]_vars
    /\ [][(pc = "extend" /\ content.kind = "error")
             => /\ all_entries' = all_entries
                /\ IF physical_page < end_page
                   THEN pc' = "render" /\ physical_page' = physical_page + 1
                   ELSE pc' = "summary"]_vars
    /\ [](pc \in AfterLoop => AllPagesDone)

\* the call of the first page failed, the second page was processed and
\* its entries were committed
C6_Witness ==
    /\ pc = "written"
    /\ Len(log) = 2
    /\ log[1].failed
    /\ log[2].returned.list # <<>>
    /\ all_entries = log[2].returned.list

ZeroEntries(record) == ~record.returned.some \/ record.returned.list = <<>>

\* C7: when every processed page yields zero entries, write_toc and set_toc
\* are never called and the bookmarks of the document stay as loaded.
C7_NoWriteOnEmptyBatch ==
    (pc \in AfterLoop /\ \A i \in 1..Len(log) : ZeroEntries(log[i])) =>
        /\ pc \in {"summary", "nothing"}
        /\ set_toc_calls = 0
        /\ fitz_toc = <<>>
        /\ doc_toc = toc0

\* a run over two pages, one answering with an empty list and one failing,
\* on a document that had bookmarks, ended with nothing extracted
C7_Witness ==
    /\ pc = "nothing"
    /\ toc0 # <<>>
    /\ Len(log) = 2
    /\ log[1].returned = Some(<<>>)
    /\ log[2].failed
    /\ doc_toc = toc0

\* the item the writer is specified to emit for an entry
ExpectedItem(entry) ==
    [level |-> IF entry.level.t = "absent" THEN Num(1) ELSE entry.level,
     title |-> IF entry.title.t = "absent" THEN Str("") ELSE entry.title,
     page  |-> ExpectedPage(IF entry.page.t = "absent" THEN 1 ELSE entry.page.v,
                            page_offset, page_count)]

\* every entry is an object whose page, when present, is a number
Convertible(toc) ==
    \A i \in 1..Len(toc) : toc[i].dict /\ toc[i].page.t # "null"

\* the list computed from the complete batch
CommittedFromBatch ==
    /\ AllPagesDone
    /\ all_entries = Returned(log)
    /\ Len(fitz_toc) = Len(all_entries)
    /\ \A i \in 1..Len(all_entries) : fitz_toc[i] = ExpectedItem(all_entries[i])

\* C8 as stated: in every run set_toc is called exactly once, after the
\* last page, with the list computed from the complete batch, and the
\* document is not mutated before.
C8_SetTocExactlyOnce ==
    /\ pc \in Finished => (set_toc_calls = 1 /\ CommittedFromBatch)
    /\ pc \notin Finished => (set_toc_calls = 0 /\ doc_toc = toc0)

\* C8, amended: set_toc is called at most once in a run: once when the
\* batch is non-empty and write_toc converts every entry, not at all when
\* the batch is empty or write_toc raises; it is called only after the last
\* page, with the list computed from the complete batch, and the document
\* is not mutated before.
C8_SetTocAtMostOnce ==
    /\ set_toc_calls \in {0, 1}
    /\ set_toc_calls = 1 <=> pc = "written"
    /\ pc = "written" => (CommittedFromBatch /\ doc_toc = fitz_toc)
    /\ pc # "written" => (doc_toc = toc0 /\ fitz_toc = <<>>)
    /\ pc \in Finished =>
          (pc = "written" <=> (all_entries # <<>> /\ Convertible(all_entries)))
    /\ pc = "nothing" => all_entries = <<>>

\* a run over two pages, both adding entries, replaced the bookmarks the
\* document had with one call of set_toc
C8_Witness ==
    /\ pc = "written"
    /\ set_toc_calls = 1
    /\ toc0 # <<>>
    /\ Len(log) = 2
    /\ log[1].returned.list # <<>>
    /\ log[2].returned.list # <<>>
    /\ Len(fitz_toc) = Len(log[1].returned.list) + Len(log[2].returned.list)

-----------------------------------------------------------------------------
(* Defaults and failures of write_toc, checked on runs over one page.      *)

\* C11: a level and a title that are present reach the committed list
\* unmodified; a missing level is committed as 1, a missing title as the
\* empty string, and a missing page counts as page 1 before the offset and
\* the clamp are applied.
C11_DefaultsAndPassThrough ==
    pc = "written" =>
        \A i \in 1..Len(all_entries) :
            LET e == all_entries[i]
                item == fitz_toc[i]
            IN  /\ e.level.t # "absent" => item.level = e.level
                /\ e.level.t = "absent" => item.level = Num(1)
                /\ e.title.t # "absent" => item.title = e.title
                /\ e.title.t = "absent" => item.title = Str("")
                /\ e.page.t = "absent" =>
                      item.page = ExpectedPage(1, page_offset, page_count)

\* an entry without a level and an entry without a page were committed, the
\* second on page 1 + 1
C11_Witness ==
    /\ pc = "written"
    /\ Len(all_entries) = 2
    /\ all_entries[1].level.t = "absent"
    /\ all_entries[2].page.t = "absent"
    /\ page_offset = 1
    /\ page_count = 2
    /\ fitz_toc[1].level = Num(1)
    /\ fitz_toc[2].page = 2

\* C12: whatever the model answers, neither the extractor nor the writer
\* raises an error that ends the run: a failure ends as zero entries for
\* the page or as a clamped page.
C12_NoFatalError == pc # "failed"

-----------------------------------------------------------------------------
(* The order of the shape matchers, checked on runs over one page.         *)

\* the members of an object that hold a list under a recognized key
RecognizedLists(members) ==
    {i \in 1..Len(members) : IsRecognized(members[i].key) /\ members[i].is_list}

\* the members of an object that hold a list
ListMembers(members) == {i \in 1..Len(members) : members[i].is_list}

\* C17: for an object, a list under a recognized key is returned before any
\* list under another key, the recognized keys being tried in the order
\* toc, table_of_contents, entries, sections; a recognized key whose value
\* is no list is skipped; with no list under a recognized key the first
\* list-valued member in member order is returned.
C17_MatcherPriority ==
    (pc = "extend" /\ content.kind = "object") =>
        LET ms == content.members
        IN  /\ RecognizedLists(ms) # {} =>
                  \E i \in RecognizedLists(ms) :
                      /\ \A j \in RecognizedLists(ms) :
                            Priority(ms[i].key) <= Priority(ms[j].key)
                      /\ entries = Some(ms[i].list)
            /\ (RecognizedLists(ms) = {} /\ ListMembers(ms) # {}) =>
                  \E i \in ListMembers(ms) :
                      /\ \A j \in ListMembers(ms) : i <= j
                      /\ entries = Some(ms[i].list)
            /\ ListMembers(ms) = {} => entries = NoneResult

\* a list under "sections" that follows a different list under an
\* unrecognized key has been returned
C17_Witness ==
    /\ pc = "extend"
    /\ content.kind = "object"
    /\ Len(content.members) = 2
    /\ ~IsRecognized(content.members[1].key)
    /\ content.members[1].is_list
    /\ content.members[2].key = "sections"
    /\ content.members[2].is_list
    /\ content.members[1].list # content.members[2].list
    /\ entries = Some(content.members[2].list)

-----------------------------------------------------------------------------
(* C13: a render failure is page-scoped.                                   *)

\* the pages of the log whose render succeeded
RenderedPages == {log[i].page : i \in {j \in 1..Len(log) : log[j].rendered}}

\* the pages a request was issued for
RequestedPages == {requests[i] : i \in 1..Len(requests)}

\* C13: when the render of a page raises, the iteration ends there: no
\* request is issued for the page, the batch stays as it was, the loop
\* goes on with the next page, and after the loop every page of the range
\* has had its iteration.
C13_RenderFailureIsPageScoped ==
    /\ [][(pc = "render" /\ pc' # "encode")
             => /\ all_entries' = all_entries
                /\ requests' = requests
                /\ IF physical_page < end_page
                   THEN pc' = "render" /\ physical_page' = physical_page + 1
                   ELSE pc' = "summary"]_vars
    /\ [](\A i \in 1..Len(log) :
             ~log[i].rendered => log[i].page \notin RequestedPages)
    /\ [](pc \in AfterLoop => AllPagesDone)

\* the first page could not be rendered, the second page was processed
\* and its entries were committed
C13_Witness ==
    /\ pc = "written"
    /\ Len(log) = 2
    /\ ~log[1].rendered
    /\ log[2].rendered
    /\ log[2].returned.list # <<>>
    /\ requests = <<log[2].page>>

-----------------------------------------------------------------------------
(* C15: strict sequencing of the page iterations.                          *)

\* C15: at most one model call is outstanding, and only while the loop
\* waits for it; when the render of a page starts, every earlier page of
\* the range has finished its iteration and the batch already holds what
\* those pages returned.
C15_OneCallAtATime ==
    /\ in_flight \in {0, 1}
    /\ in_flight = 1 <=> pc = "await"
    /\ pc \in {"render", "encode", "request", "await", "extend"}
          => /\ Len(log) = physical_page - start_page
             /\ \A i \in 1..Len(log) : log[i].page = start_page + i - 1
             /\ all_entries = Returned(log)
             /\ RequestedPages \subseteq start_page..physical_page
    /\ pc \in {"render", "encode", "request"}
          => physical_page \notin RequestedPages

\* the call of the second page is outstanding, the entries of the first
\* page being in the batch already
C15_Witness ==
    /\ pc = "await"
    /\ in_flight = 1
    /\ Len(log) = 1
    /\ log[1].returned.list # <<>>
    /\ all_entries = log[1].returned.list
    /\ requests = <<start_page, start_page + 1>>

-----------------------------------------------------------------------------
(* C16: no retry.                                                          *)

\* C16: no page is requested twice, only pages of the range are
\* requested, and after the loop the requests are exactly the pages that
\* rendered, one request each.
C16_OneRequestPerPage ==
    /\ \A i, j \in 1..Len(requests) : i # j => requests[i] # requests[j]
    /\ RequestedPages \subseteq start_page..end_page
    /\ pc \in AfterLoop
          => /\ RequestedPages = RenderedPages
             /\ Len(requests) = Cardinality(RenderedPages)

\* the call of the first page failed and the answer of the second page
\* was malformed: two pages, two requests
C16_Witness ==
    /\ pc = "nothing"
    /\ Len(log) = 2
    /\ log[1].failed
    /\ log[2].rendered /\ ~log[2].failed /\ ~log[2].returned.some
    /\ requests = <<start_page, start_page + 1>>

-----------------------------------------------------------------------------
(* C19: no entry is changed in place.                                      *)

\* C19: write_toc leaves the list it is given as it was, the offset and
\* the clamp going to the list it builds; and the step that appends the
\* entries of a page keeps the batch it had as a prefix of the new batch.
C19_InputsUnchanged ==
    /\ [][pc = "summary" => all_entries' = all_entries]_vars
    /\ [][pc = "extend"
             => /\ Len(all_entries') >= Len(all_entries)
                /\ SubSeq(all_entries', 1, Len(all_entries)) = all_entries]_vars

\* a batch built from two pages was written, and the page committed for
\* its first entry is not the page the entry still holds
C19_Witness ==
    /\ pc = "written"
    /\ Len(log) = 2
    /\ log[1].returned.list # <<>>
    /\ log[2].returned.list # <<>>
    /\ fitz_toc[1].page # all_entries[1].page.v

-----------------------------------------------------------------------------
(* C18: termination.                                                       *)

\* C18: a run that has ended has had one iteration for every page of the
\* range and ended in the commit of the bookmarks or in "nothing
\* extracted".
C18_EndsInCommitOrNothing ==
    pc \in Finished => (AllPagesDone /\ pc \in {"written", "nothing"})


-----------------------------------------------------------------------------
(* C14: save_config, then load_config.                                     *)

\* C14: whatever API key, base URL and model name save_config was called
\* with, the load_config that follows returns those three strings.
C14_SaveLoadRoundTrip ==
    (cfg_pc = "loaded" /\ saved.present) => loaded = saved

\* what does hold: after a save_config that returned True, load_config
\* returns the three strings that were saved, and the key comes back from
\* its obfuscated form whenever it can be obfuscated at all
C14_RoundTripWhenSaved ==
    /\ cfg_pc = "saved" => LoadedConfig(config_file) = saved
    /\ \A k \in ApiKeys :
          ~ObfuscateRaises(k) => DeobfuscateApiKey(ObfuscateApiKey(k)) = k


====
